---- MODULE Spec2Model ----
(***************************************************************************)
(* ShadowMount: the scanning daemon (src/src/main.c).                      *)
(*                                                                         *)
(* The model follows main(): startup (remove lock and log), the startup    *)
(* count and scan, the lock file, and the poll loop; scan_all_paths() is   *)
(* one sweep step followed by one step per directory entry.  The file      *)
(* system (candidate directories, mount points, /user/app/<id>) and the    *)
(* platform services (nmount, sceAppInstUtilAppInstallTitleDir) are the    *)
(* environment: their outcomes are inputs drawn with \E.                   *)
(* SpecScan runs one daemon over directories fixed at start (roots that do *)
(* not open, manifests of every kind) next to the kill tool                *)
(* (src/src/kill.c); SpecGate is one call of wait_for_stability_fast.      *)
(***************************************************************************)
EXTENDS Integers, FiniteSets, Sequences, TLC

\* ---------------------------------------------------------------- bounds
\* Candidate directories (entries of the scan roots), in readdir order.
NumPaths == 3
\* Distinct title ids found in the manifests.
NumTitles == 2
\* Daemon processes that may be started.
NumProcs == 2
\* main.c:22 sets MAX_PENDING to 512; the model keeps the slot table and
\* its linear scans and scales the capacity down.
MAX_PENDING == 2

\* Scan roots (main.c:53-70 lists 28); the entries are spread over them.
NumRoots == 2
\* Largest age in seconds drawn for a modification time.
MaxAge == 12

\* Changes the environment makes to the file system in one behaviour.
MaxEnvSteps == 4

\* The retry bound of the specification (section 4.7); main.c has no such
\* constant.  It is used only to state the retry claims.
MAX_RETRIES == 3

\* main.c:287 and main.c:291: the registration statuses that mean success.
\* res is a 32-bit int: 0x80990002 is the bit pattern of -2137456638.
REG_OK == 0
REG_ALREADY == -2137456638

\* main.c:124 and 129: the stability threshold in seconds.
STABLE_SECS == 10

Paths == 1..NumPaths
Roots == 1..NumRoots
Titles == 1..NumTitles
Procs == 1..NumProcs
Slots == 1..MAX_PENDING
NoPath == 0
NoProc == 0

\* The statuses sceAppInstUtilAppInstallTitleDir may return: new, already
\* registered (0x80990002), and some other error.
RegStatuses == {REG_OK, REG_ALREADY, REG_ALREADY + 1}

\* The title id written in the manifest of a candidate directory.  Two
\* directories may carry the same title id.
TitleOf(p) == ((p - 1) % NumTitles) + 1

FailCap == MAX_RETRIES + 1

\* What sce_sys/param.json of a candidate directory may hold: no file, an
\* empty file, text with neither id key, the key "titleId", or only the
\* key "title_id".
Manifests == {"missing", "empty", "nokey", "valid", "valid_alt"}

\* The scan root a candidate directory lies in; scan_all_paths walks the
\* roots in order, so the entries of a root are consecutive.
RootOf(p) == (((p - 1) * NumRoots) \div NumPaths) + 1

VARIABLES
    \* --- candidate directories
    exists,     \* [Paths -> BOOLEAN]   the directory is on disk
    manifest,   \* [Paths -> Manifests]  what sce_sys/param.json holds
    settled,    \* [Paths -> BOOLEAN]   mtime of the directory and of its
                \*                      sce_sys older than the threshold
    rootOk,     \* [Roots -> BOOLEAN]   opendir of the scan root succeeds
    \* --- per title: /system_ex/app/<id> and /user/app/<id>
    mnt,        \* [Titles -> Paths \cup {NoPath}]  nullfs mount source
    appdir,     \* [Titles -> BOOLEAN]  /user/app/<id> exists
    assets,     \* [Titles -> {"none","partial","full"}] copied sce_sys+icon
    lnk,        \* [Titles -> Paths \cup {NoPath}]  content of mount.lnk
    \* --- /data/shadowmount
    lockFile,   \* NoProc, or the process that created daemon.lock
    logFile,    \* NoProc, or the process that created debug.log
    stopFile,   \* BOOLEAN  KILL_FILE is present
    killFile,   \* BOOLEAN  /data/shadowmount.kill is present (kill.c)
    \* --- per process
    pc,         \* [Procs -> program position]
    phase,      \* [Procs -> {"startup","loop"}]  which call of scan_all_paths
    idx,        \* [Procs -> 1..NumPaths]  entry the scan is at
    cache,      \* [Procs -> [Slots -> Paths \cup {NoPath}]]
    hasLock,    \* [Procs -> BOOLEAN]  open() returned a descriptor
    \* --- history
    ev,         \* what the last step did
    watch,      \* the candidate directory whose history is kept
    fails,      \* 0..FailCap  consecutive failed installs of watch
    deferred,   \* BOOLEAN  the gate last reported watch unstable
    sweptGone,  \* BOOLEAN  a sweep invalidated the entry of watch
    recreated,  \* BOOLEAN  watch was created and not yet treated as new
    tries,      \* 0..2  entry steps that recorded watch, or found it
                \*       recorded, and called the gate or mount_and_install,
                \*       since a sweep last found watch missing
    rival,      \* [Procs -> Procs \cup {NoProc}]  lock holder at start
    envSteps,   \* changes the environment has made so far
    \* --- one call of wait_for_stability_fast on its own
    gateIn,     \* what stat() reports of the directory and its sce_sys
    gateOut     \* the result of the call, NoGate before it

fsVars == <<exists, manifest, settled>>
titleVars == <<mnt, appdir, assets, lnk>>
dataVars == <<lockFile, logFile, stopFile>>
procVars == <<pc, phase, idx, cache, hasLock>>
histVars == <<ev, watch, fails, deferred, sweptGone, recreated, rival, envSteps>>
\* State that the daemon's steps and the directory changes leave alone.
aux == <<rootOk, killFile, gateIn, gateOut>>
vars == <<exists, manifest, settled, rootOk, mnt, appdir, assets, lnk,
          lockFile, logFile, stopFile, killFile,
          pc, phase, idx, cache, hasLock,
          ev, watch, fails, deferred, sweptGone, recreated, tries, rival,
          envSteps, gateIn, gateOut>>

\* ------------------------------------------------------------ the history
\* The record of one step: the operation, the process and entry it was
\* about, and what scan_all_paths did with the entry.
\*   recorded  a new candidate claimed a cache slot
\*   full      a new candidate found every slot valid
\*   swept     a new candidate whose entry a sweep had invalidated
\*   gate      result of wait_for_stability_fast, "none" when not called
\*   inst      mount_and_install was called, with is_remount = remount;
\*             mountOk, copy ("none" when the copy did not run), res and
\*             ret are its outcomes and toast says the rich toast was written
\*   notify    the "Installing: ..." notification was sent (352)
\*   steps     what mount_and_install did, in the order it did it
\*   saved     the step wrote a record of the titles to storage
NoEv == [op |-> "none", proc |-> NoProc, path |-> NoPath, recorded |-> FALSE,
         full |-> FALSE, swept |-> FALSE, gate |-> "none", inst |-> FALSE,
         remount |-> FALSE, mountOk |-> FALSE, copy |-> "none",
         res |-> REG_OK, ret |-> FALSE, toast |-> FALSE,
         notify |-> FALSE, steps |-> <<>>, saved |-> FALSE]

Ev(op, d, p) == [NoEv EXCEPT !.op = op, !.proc = d, !.path = p]

\* ------------------------------------------------------------ file system
\* main.c:111
IsInstalled(t) == appdir[t]

\* main.c:112: /system_ex/app/<id>/sce_sys/param.json is visible, that is,
\* a source is mounted there and carries its manifest.
IsDataMounted(t) ==
    /\ mnt[t] # NoPath
    /\ exists[mnt[t]]
    /\ manifest[mnt[t]] # "missing"

\* main.c:310-316: readdir lists the directory: its root opens and the
\* directory is there.
Listed(p) == rootOk[RootOf(p)] /\ exists[p]

\* main.c:204: fopen of the manifest succeeds.
ManifestOpens(m) == m # "missing"

\* main.c:205: the length ftell reports, 1 standing for any positive one.
ManifestLen(m) == IF m = "empty" THEN 0 ELSE 1

\* main.c:176-182: 0 when the key and a quoted value are found, negative
\* otherwise.
ExtractJsonString(m, key) ==
    IF \/ (key = "titleId" /\ m = "valid")
       \/ (key = "title_id" /\ m = "valid_alt")
    THEN 0 ELSE -1

\* The status of the lookup not tested: any manifest that opens is taken.
GetGameInfo_AnyFile(p) == exists[p] /\ ManifestOpens(manifest[p])

\* main.c:200-224: true exactly when the manifest yields a title id.  The
\* repair of applicationDrmType (202) rewrites a field of the source's
\* manifest that nothing else reads; it is left out.
GetGameInfo(p) ==
    /\ exists[p]
    /\ ManifestOpens(manifest[p])
    /\ ManifestLen(manifest[p]) > 0
    /\ LET first == ExtractJsonString(manifest[p], "titleId")
           res == IF first # 0
                  THEN ExtractJsonString(manifest[p], "title_id")
                  ELSE first
       IN  res = 0

\* The thresholds compared with >= instead of >.
FastGate_Inclusive(dirOk, age, sysOk, sysAge) ==
    IF ~dirOk THEN [stable |-> FALSE, slept |-> FALSE]
    ELSE IF /\ age >= STABLE_SECS
            /\ (IF sysOk THEN sysAge >= STABLE_SECS ELSE TRUE)
         THEN [stable |-> TRUE, slept |-> FALSE]
         ELSE [stable |-> FALSE, slept |-> TRUE]

\* main.c:115-141: wait_for_stability_fast on what stat() reports: whether
\* the directory and its sce_sys are there, and the seconds since each was
\* modified.  slept says the call went through sceKernelUsleep(2000000).
FastGate(dirOk, age, sysOk, sysAge) ==
    IF ~dirOk THEN [stable |-> FALSE, slept |-> FALSE]
    ELSE IF /\ age > STABLE_SECS
            /\ (IF sysOk THEN sysAge > STABLE_SECS ELSE TRUE)
         THEN [stable |-> TRUE, slept |-> FALSE]
         ELSE [stable |-> FALSE, slept |-> TRUE]

\* The age of a candidate directory and of its sce_sys: a settled one is
\* older than the threshold, another was modified just now.
AgeOf(p) == IF settled[p] THEN MaxAge ELSE 0

\* main.c:115-141, for a candidate directory of the scan.
WaitForStabilityFast(p) ==
    FastGate(exists[p], AgeOf(p), ManifestOpens(manifest[p]), AgeOf(p)).stable

\* ------------------------------------------------------------ dedup cache
\* main.c:78: static storage, all slots invalid when a process starts.
\* A slot is written as its path when valid and as NoPath when not: the
\* path of an invalid slot is never read (242, 321).
EmptyCache == [k \in Slots |-> NoPath]

\* main.c:319-323 (and 240-244): the linear search for a valid slot that
\* holds the path.
Valid(c, k) == c[k] # NoPath

AlreadySeen(c, p) == \E k \in Slots : Valid(c, k) /\ c[k] = p

FreeSlots(c) == {k \in Slots : ~Valid(c, k)}

\* The slot never claimed: the candidate is not recorded.
RecordCandidate_Never(c, p) == c

\* main.c:327-335: claim the first invalid slot; with none free the loop
\* ends without recording anything.
RecordCandidate(c, p) ==
    IF FreeSlots(c) = {} THEN c
    ELSE LET k == CHOOSE f \in FreeSlots(c) : \A g \in FreeSlots(c) : f <= g
         IN  [c EXCEPT ![k] = p]

\* The cleaner left out: no slot is ever invalidated.
CacheCleaner_Missing(c) == c

\* main.c:301-308: the cache cleaner.
CacheCleaner(c) ==
    [k \in Slots |-> IF Valid(c, k) /\ ~exists[c[k]] THEN NoPath ELSE c[k]]

\* main.c:227-251
CountNewCandidates(d) ==
    Cardinality({p \in Paths :
        /\ Listed(p)
        /\ GetGameInfo(p)
        /\ ~(IsInstalled(TitleOf(p)) /\ IsDataMounted(TitleOf(p)))
        /\ ~AlreadySeen(cache[d], p)})

\* The mounted test inverted.
SkipPerfect_Inverted(t) == IsInstalled(t) /\ ~IsDataMounted(t)

\* main.c:338-342: "skip if perfect".
SkipPerfect(t) == IsInstalled(t) /\ IsDataMounted(t)

\* ------------------------------------------------------ mount_and_install
\* The result of mount_nullfs not tested: the call goes on after a failed
\* mount.
MountAndInstall_NoMountCheck(p, t, is_remount, mountOk, copyOk, res) ==
    LET dirNow == IF is_remount THEN appdir[t] ELSE TRUE
        assetsNow == IF is_remount THEN assets[t]
                     ELSE IF copyOk THEN "full" ELSE "partial"
        lnkNow == IF dirNow THEN p ELSE lnk[t]
    IN  [mnt |-> IF mountOk THEN p ELSE NoPath,
         appdir |-> dirNow, assets |-> assetsNow, lnk |-> lnkNow,
         ret |-> (res = REG_OK \/ res = REG_ALREADY),
         toast |-> (res = REG_OK),
         steps |-> <<"unmount", "mount">>
                   \o (IF is_remount THEN <<>> ELSE <<"mkdir", "copy">>)
                   \o (IF dirNow THEN <<"lnk">> ELSE <<>>)
                   \o <<"register">>
                   \o (IF res = REG_OK THEN <<"toast">> ELSE <<>>)]

\* 0x80990002 taken for a failure: only a new registration succeeds.
MountAndInstall_RestoredFails(p, t, is_remount, mountOk, copyOk, res) ==
    IF ~mountOk
    THEN [mnt |-> NoPath, appdir |-> appdir[t], assets |-> assets[t],
          lnk |-> lnk[t], ret |-> FALSE, toast |-> FALSE,
          steps |-> <<"unmount", "mount">>]
    ELSE LET dirNow == IF is_remount THEN appdir[t] ELSE TRUE
             assetsNow == IF is_remount THEN assets[t]
                          ELSE IF copyOk THEN "full" ELSE "partial"
             lnkNow == IF dirNow THEN p ELSE lnk[t]
         IN  [mnt |-> p, appdir |-> dirNow, assets |-> assetsNow,
              lnk |-> lnkNow,
              ret |-> (res = REG_OK),
              toast |-> (res = REG_OK),
              steps |-> <<"unmount", "mount">>
                        \o (IF is_remount THEN <<>> ELSE <<"mkdir", "copy">>)
                        \o (IF dirNow THEN <<"lnk">> ELSE <<>>)
                        \o <<"register">>
                        \o (IF res = REG_OK THEN <<"toast">> ELSE <<>>)]

\* is_remount not looked at: the directories are made and the assets copied
\* on every call.
MountAndInstall_AlwaysCopies(p, t, is_remount, mountOk, copyOk, res) ==
    IF ~mountOk
    THEN [mnt |-> NoPath, appdir |-> appdir[t], assets |-> assets[t],
          lnk |-> lnk[t], ret |-> FALSE, toast |-> FALSE,
          steps |-> <<"unmount", "mount">>]
    ELSE [mnt |-> p, appdir |-> TRUE,
          assets |-> IF copyOk THEN "full" ELSE "partial",
          lnk |-> p,
          ret |-> (res = REG_OK \/ res = REG_ALREADY),
          toast |-> (res = REG_OK),
          steps |-> <<"unmount", "mount", "mkdir", "copy", "lnk", "register">>
                    \o (IF res = REG_OK THEN <<"toast">> ELSE <<>>)]

\* main.c:253-297.  mountOk, copyOk and res are the outcomes of nmount, of
\* copy_dir/copy_file and of the registration service.  The result is the
\* state of the title's mount point and installation directory afterwards,
\* the return value, whether the rich toast was written, and the steps
\* taken in their order.
MountAndInstall(p, t, is_remount, mountOk, copyOk, res) ==
    IF ~mountOk
    THEN \* 258-259: the stale mount is gone, the new one failed
         [mnt |-> NoPath, appdir |-> appdir[t], assets |-> assets[t],
          lnk |-> lnk[t], ret |-> FALSE, toast |-> FALSE,
          steps |-> <<"unmount", "mount">>]
    ELSE LET \* 262-277: copy results are not looked at
             dirNow == IF is_remount THEN appdir[t] ELSE TRUE
             assetsNow == IF is_remount THEN assets[t]
                          ELSE IF copyOk THEN "full" ELSE "partial"
             \* 280-281: fopen succeeds when the directory is there
             lnkNow == IF dirNow THEN p ELSE lnk[t]
         IN  [mnt |-> p, appdir |-> dirNow, assets |-> assetsNow,
              lnk |-> lnkNow,
              \* 287-296
              ret |-> (res = REG_OK \/ res = REG_ALREADY),
              toast |-> (res = REG_OK),
              \* 257-258, 263-273, 280-281, 284, 288
              steps |-> <<"unmount", "mount">>
                        \o (IF is_remount THEN <<>> ELSE <<"mkdir", "copy">>)
                        \o (IF dirNow THEN <<"lnk">> ELSE <<>>)
                        \o <<"register">>
                        \o (IF res = REG_OK THEN <<"toast">> ELSE <<>>)]

\* ----------------------------------------------------------------- Init
\* No call of the gate on its own has been made.
NoGateIn == [dir |-> FALSE, age |-> 0, sys |-> FALSE, sysAge |-> 0]
NoGate == [called |-> FALSE, stable |-> FALSE, slept |-> FALSE]

\* Nothing on storage, no process started.
InitDaemon ==
    /\ exists = [p \in Paths |-> FALSE]
    /\ manifest = [p \in Paths |-> "missing"]
    /\ settled = [p \in Paths |-> FALSE]
    /\ mnt = [t \in Titles |-> NoPath]
    /\ appdir = [t \in Titles |-> FALSE]
    /\ assets = [t \in Titles |-> "none"]
    /\ lnk = [t \in Titles |-> NoPath]
    /\ lockFile = NoProc
    /\ logFile = NoProc
    /\ stopFile = FALSE
    /\ pc = [d \in Procs |-> "off"]
    /\ phase = [d \in Procs |-> "startup"]
    /\ idx = [d \in Procs |-> 1]
    /\ cache = [d \in Procs |-> EmptyCache]
    /\ hasLock = [d \in Procs |-> FALSE]
    /\ ev = NoEv
    /\ watch \in Paths
    /\ fails = 0
    /\ deferred = FALSE
    /\ sweptGone = FALSE
    /\ recreated = FALSE
    /\ rival = [d \in Procs |-> NoProc]
    /\ envSteps = 0
    /\ rootOk = [r \in Roots |-> TRUE]
    /\ killFile = FALSE
    /\ tries = 0
    /\ gateOut = NoGate

Init ==
    /\ InitDaemon
    /\ gateIn = NoGateIn

\* ---------------------------------------------------------- environment
EnvStep(p) ==
    /\ envSteps < MaxEnvSteps
    /\ envSteps' = envSteps + 1
    /\ ev' = Ev("env", NoProc, p)

\* A bundle is dropped onto storage, with or without a usable manifest.
CreatePath(p, m) ==
    /\ ~exists[p]
    /\ exists' = [exists EXCEPT ![p] = TRUE]
    /\ manifest' = [manifest EXCEPT ![p] = m]
    /\ settled' = [settled EXCEPT ![p] = FALSE]
    /\ recreated' = (recreated \/ p = watch)
    /\ EnvStep(p)
    /\ UNCHANGED <<titleVars, dataVars, procVars, fails, deferred, sweptGone, rival, watch, tries, aux>>

\* The bundle is deleted or its drive unplugged; a mount of it is lost.
RemovePath(p) ==
    /\ exists[p]
    /\ exists' = [exists EXCEPT ![p] = FALSE]
    /\ manifest' = [manifest EXCEPT ![p] = "missing"]
    /\ settled' = [settled EXCEPT ![p] = FALSE]
    /\ mnt' = [t \in Titles |-> IF mnt[t] = p THEN NoPath ELSE mnt[t]]
    /\ fails' = IF p = watch THEN 0 ELSE fails
    /\ deferred' = (deferred /\ p # watch)
    /\ recreated' = (recreated /\ p # watch)
    /\ EnvStep(p)
    /\ UNCHANGED <<appdir, assets, lnk, dataVars, procVars, sweptGone, rival, watch, tries, aux>>

\* Ten seconds pass without a write to the bundle.
Settle(p) ==
    /\ exists[p] /\ ~settled[p]
    /\ settled' = [settled EXCEPT ![p] = TRUE]
    /\ EnvStep(p)
    /\ UNCHANGED <<exists, manifest, titleVars, dataVars, procVars,
                   fails, deferred, sweptGone, recreated, rival, watch, tries, aux>>

\* The mount of a title is lost (reboot, forced unmount).
LoseMount(t) ==
    /\ mnt[t] # NoPath
    /\ mnt' = [mnt EXCEPT ![t] = NoPath]
    /\ EnvStep(NoPath)
    /\ UNCHANGED <<fsVars, appdir, assets, lnk, dataVars, procVars,
                   fails, deferred, sweptGone, recreated, rival, watch, tries, aux>>

\* Someone creates KILL_FILE.
TouchStop ==
    /\ ~stopFile
    /\ stopFile' = TRUE
    /\ EnvStep(NoPath)
    /\ UNCHANGED <<fsVars, titleVars, lockFile, logFile, procVars,
                   fails, deferred, sweptGone, recreated, rival, watch, tries, aux>>

\* --------------------------------------------------------------- main()
Running(d) == pc[d] \in {"count", "sweep", "scan", "lock", "loop"}

\* main.c:365-375: a process starts; it removes the lock file and the log,
\* whoever made them, and writes the first line of a new log.
Start(d) ==
    /\ pc[d] = "off"
    /\ lockFile' = NoProc
    /\ logFile' = d
    /\ cache' = [cache EXCEPT ![d] = EmptyCache]
    /\ pc' = [pc EXCEPT ![d] = "count"]
    /\ rival' = [rival EXCEPT ![d] =
                    IF lockFile # NoProc /\ lockFile # d /\ hasLock[lockFile]
                    THEN lockFile ELSE NoProc]
    /\ ev' = Ev("start", d, NoPath)
    /\ UNCHANGED <<fsVars, titleVars, stopFile, phase, idx, hasLock,
                   fails, deferred, sweptGone, recreated, watch, envSteps, tries, aux>>

\* main.c:378-392: the startup count decides whether the startup scan runs.
Count(d) ==
    /\ pc[d] = "count"
    /\ pc' = [pc EXCEPT ![d] = IF CountNewCandidates(d) = 0 THEN "lock" ELSE "sweep"]
    /\ phase' = [phase EXCEPT ![d] = "startup"]
    /\ ev' = Ev("count", d, NoPath)
    /\ UNCHANGED <<fsVars, titleVars, dataVars, idx, cache, hasLock,
                   fails, deferred, sweptGone, recreated, rival, watch, envSteps, tries, aux>>

\* main.c:395-396: open(LOCK_FILE, O_CREAT | O_EXCL).  An existing file is
\* EEXIST and the process returns 0.  Otherwise the file is created, or
\* open fails for another reason (created = FALSE) and execution goes on.
Lock(d) ==
    /\ pc[d] = "lock"
    /\ IF lockFile # NoProc
       THEN /\ pc' = [pc EXCEPT ![d] = "exit0"]
            /\ UNCHANGED <<lockFile, hasLock>>
       ELSE \E created \in BOOLEAN :
            /\ lockFile' = IF created THEN d ELSE NoProc
            /\ hasLock' = [hasLock EXCEPT ![d] = created]
            /\ pc' = [pc EXCEPT ![d] = "loop"]
    /\ phase' = [phase EXCEPT ![d] = "loop"]
    /\ ev' = Ev("lock", d, NoPath)
    /\ UNCHANGED <<fsVars, titleVars, logFile, stopFile, idx, cache,
                   fails, deferred, sweptGone, recreated, rival, watch, envSteps, tries, aux>>

\* main.c:398-404: one iteration of the loop up to the call of
\* scan_all_paths: the kill file ends the process, otherwise it sleeps.
Loop(d) ==
    /\ pc[d] = "loop"
    /\ IF stopFile
       THEN /\ stopFile' = FALSE
            /\ lockFile' = NoProc
            /\ hasLock' = [hasLock EXCEPT ![d] = FALSE]
            /\ pc' = [pc EXCEPT ![d] = "exit0"]
       ELSE /\ pc' = [pc EXCEPT ![d] = "sweep"]
            /\ UNCHANGED <<stopFile, lockFile, hasLock>>
    \* 399-402: remove(KILL_FILE), remove(LOCK_FILE), return 0; nothing is
    \* written
    /\ ev' = IF stopFile THEN [Ev("exit", d, NoPath) EXCEPT !.saved = FALSE]
             ELSE Ev("loop", d, NoPath)
    /\ UNCHANGED <<fsVars, titleVars, logFile, phase, idx, cache,
                   fails, deferred, sweptGone, recreated, rival, watch, envSteps, tries, aux>>

\* ------------------------------------------------------ scan_all_paths()
\* main.c:301-308
Sweep(d) ==
    /\ pc[d] = "sweep"
    /\ cache' = [cache EXCEPT ![d] = CacheCleaner(cache[d])]
    /\ sweptGone' = \/ sweptGone
                     \/ (AlreadySeen(cache[d], watch) /\ ~exists[watch])
    /\ pc' = [pc EXCEPT ![d] = "scan"]
    /\ idx' = [idx EXCEPT ![d] = 1]
    /\ tries' = IF exists[watch] THEN tries ELSE 0
    /\ ev' = Ev("sweep", d, NoPath)
    /\ UNCHANGED <<fsVars, titleVars, dataVars, phase, hasLock,
                   fails, deferred, recreated, rival, watch, envSteps, aux>>

\* The loops left at the first entry handled: a return in place of continue.
Advance_Break(d) ==
    /\ idx' = [idx EXCEPT ![d] = 1]
    /\ pc' = [pc EXCEPT ![d] = IF phase[d] = "startup" THEN "lock" ELSE "loop"]

\* main.c:314 and 360-362: readdir moves to the next entry; after the last
\* one scan_all_paths returns to its caller.
Advance(d) ==
    IF idx[d] < NumPaths
    THEN /\ idx' = [idx EXCEPT ![d] = idx[d] + 1]
         /\ UNCHANGED pc
    ELSE /\ idx' = [idx EXCEPT ![d] = 1]
         /\ pc' = [pc EXCEPT ![d] = IF phase[d] = "startup" THEN "lock" ELSE "loop"]

\* main.c:311 and 314: the root does not open (continue with the next
\* root), or the directory is not on disk; readdir does not list it.
EntryAbsent(d) ==
    /\ pc[d] = "scan"
    /\ ~Listed(idx[d])
    /\ Advance(d)
    /\ ev' = Ev(IF rootOk[RootOf(idx[d])] THEN "absent" ELSE "noroot", d, idx[d])
    /\ UNCHANGED <<fsVars, titleVars, dataVars, phase, cache, hasLock,
                   fails, deferred, sweptGone, recreated, rival, watch, envSteps, tries, aux>>

\* main.c:319-323
EntrySeen(d) ==
    /\ pc[d] = "scan"
    /\ Listed(idx[d])
    /\ AlreadySeen(cache[d], idx[d])
    /\ Advance(d)
    /\ ev' = Ev("seen", d, idx[d])
    /\ UNCHANGED <<fsVars, titleVars, dataVars, phase, cache, hasLock,
                   fails, deferred, sweptGone, recreated, rival, watch, envSteps, tries, aux>>

\* main.c:326 and 336: no title id, nothing is recorded.
EntryNoMeta(d) ==
    /\ pc[d] = "scan"
    /\ Listed(idx[d])
    /\ ~AlreadySeen(cache[d], idx[d])
    /\ ~GetGameInfo(idx[d])
    /\ Advance(d)
    /\ ev' = Ev("nometa", d, idx[d])
    /\ UNCHANGED <<fsVars, titleVars, dataVars, phase, cache, hasLock,
                   fails, deferred, sweptGone, recreated, rival, watch, envSteps, tries, aux>>

\* main.c:326-335: a candidate that passed the dedup filter.
NewCandidate(d) ==
    /\ pc[d] = "scan"
    /\ Listed(idx[d])
    /\ ~AlreadySeen(cache[d], idx[d])
    /\ GetGameInfo(idx[d])

\* What an entry step records of a new candidate.
NewEv(op, d) ==
    [Ev(op, d, idx[d]) EXCEPT !.recorded = FreeSlots(cache[d]) # {},
                              !.full = FreeSlots(cache[d]) = {},
                              !.swept = (sweptGone /\ idx[d] = watch)]

\* The gate or mount_and_install is called for the entry.
Tried(d) ==
    tries' = IF idx[d] = watch /\ FreeSlots(cache[d]) # {}
             THEN (IF tries < 2 THEN tries + 1 ELSE 2)
             ELSE tries

TreatedAsNew(d) ==
    /\ cache' = [cache EXCEPT ![d] = RecordCandidate(cache[d], idx[d])]
    /\ sweptGone' = (sweptGone /\ idx[d] # watch)
    /\ recreated' = (recreated /\ idx[d] # watch)

\* main.c:338-342
EntryPerfect(d) ==
    /\ NewCandidate(d)
    /\ SkipPerfect(TitleOf(idx[d]))
    /\ TreatedAsNew(d)
    /\ Advance(d)
    /\ ev' = NewEv("perfect", d)
    /\ UNCHANGED <<fsVars, titleVars, dataVars, phase, hasLock,
                   fails, deferred, rival, watch, envSteps, tries, aux>>

\* main.c:350-355: a fresh install whose stability gate reports unstable.
EntryUnstable(d) ==
    /\ NewCandidate(d)
    /\ ~SkipPerfect(TitleOf(idx[d]))
    /\ ~IsInstalled(TitleOf(idx[d]))
    /\ ~WaitForStabilityFast(idx[d])
    /\ TreatedAsNew(d)
    /\ Advance(d)
    /\ deferred' = (deferred \/ idx[d] = watch)
    /\ Tried(d)
    /\ ev' = [NewEv("unstable", d) EXCEPT !.gate = "unstable", !.notify = TRUE]
    /\ UNCHANGED <<fsVars, titleVars, dataVars, phase, hasLock, fails, rival, watch, envSteps, aux>>

\* main.c:344-359: remount of an installed title, or a fresh install that
\* passed the gate; mount_and_install is called and its result dropped.
EntryInstall(d) ==
    /\ NewCandidate(d)
    /\ ~SkipPerfect(TitleOf(idx[d]))
    /\ IsInstalled(TitleOf(idx[d])) \/ WaitForStabilityFast(idx[d])
    /\ \E mountOk \in BOOLEAN, copyOk \in BOOLEAN, res \in RegStatuses :
         LET p == idx[d]
             t == TitleOf(p)
             is_remount == IsInstalled(t)
             r == MountAndInstall(p, t, is_remount, mountOk, copyOk, res)
         IN  /\ mnt' = [mnt EXCEPT ![t] = r.mnt]
             /\ appdir' = [appdir EXCEPT ![t] = r.appdir]
             /\ assets' = [assets EXCEPT ![t] = r.assets]
             /\ lnk' = [lnk EXCEPT ![t] = r.lnk]
             /\ fails' = IF p # watch THEN fails
                         ELSE IF r.ret THEN 0
                         ELSE IF fails < FailCap THEN fails + 1
                         ELSE FailCap
             /\ deferred' = (deferred /\ p # watch)
             /\ ev' = [NewEv("install", d) EXCEPT
                          !.gate = IF is_remount THEN "none" ELSE "stable",
                          !.inst = TRUE, !.remount = is_remount,
                          !.mountOk = mountOk,
                          !.copy = IF ~mountOk \/ is_remount THEN "none"
                                   ELSE IF copyOk THEN "ok" ELSE "failed",
                          !.res = IF mountOk THEN res ELSE REG_OK,
                          !.ret = r.ret, !.toast = r.toast,
                          !.notify = ~is_remount, !.steps = r.steps]
    /\ TreatedAsNew(d)
    /\ Tried(d)
    /\ Advance(d)
    /\ UNCHANGED <<fsVars, dataVars, phase, hasLock, rival, watch, envSteps, aux>>

ScanEntry(d) ==
    \/ EntryAbsent(d)
    \/ EntrySeen(d)
    \/ EntryNoMeta(d)
    \/ EntryPerfect(d)
    \/ EntryUnstable(d)
    \/ EntryInstall(d)

DaemonNext(d) ==
    \/ Start(d)
    \/ Count(d)
    \/ Lock(d)
    \/ Loop(d)
    \/ Sweep(d)
    \/ ScanEntry(d)

EnvNext ==
    \/ \E p \in Paths, m \in {"missing", "valid"} : CreatePath(p, m)
    \/ \E p \in Paths : RemovePath(p)
    \/ \E p \in Paths : Settle(p)
    \/ \E t \in Titles : LoseMount(t)
    \/ TouchStop

\* One daemon and its environment.
Next == EnvNext \/ DaemonNext(1)

Spec == Init /\ [][Next]_vars

\* The daemon keeps polling: main.c:398-405 is an endless loop whose only
\* waits are bounded sleeps.
FairSpec == Spec /\ WF_vars(DaemonNext(1))

\* ---------------------------------------------------- several processes
\* The candidate directories as the processes find them; no directory
\* changes afterwards.
InitMulti ==
    /\ exists \in [Paths -> BOOLEAN]
    /\ manifest \in [Paths -> {"missing", "valid"}]
    /\ settled \in [Paths -> BOOLEAN]
    /\ \A p \in Paths : ~exists[p] => (manifest[p] = "missing" /\ ~settled[p])
    /\ \A p \in Paths : manifest[p] = "missing" => ~settled[p]
    /\ mnt = [t \in Titles |-> NoPath]
    /\ appdir = [t \in Titles |-> FALSE]
    /\ assets = [t \in Titles |-> "none"]
    /\ lnk = [t \in Titles |-> NoPath]
    /\ lockFile = NoProc
    /\ logFile = NoProc
    /\ stopFile = FALSE
    /\ pc = [d \in Procs |-> "off"]
    /\ phase = [d \in Procs |-> "startup"]
    /\ idx = [d \in Procs |-> 1]
    /\ cache = [d \in Procs |-> EmptyCache]
    /\ hasLock = [d \in Procs |-> FALSE]
    /\ ev = NoEv
    /\ watch = 1
    /\ fails = 0
    /\ deferred = FALSE
    /\ sweptGone = FALSE
    /\ recreated = FALSE
    /\ rival = [d \in Procs |-> NoProc]
    /\ envSteps = 0
    /\ rootOk = [r \in Roots |-> TRUE]
    /\ killFile = FALSE
    /\ tries = 0
    /\ gateIn = NoGateIn
    /\ gateOut = NoGate

NextMulti == TouchStop \/ \E d \in Procs : DaemonNext(d)

SpecMulti == InitMulti /\ [][NextMulti]_vars

\* ------------------------------------------------------ one scan in detail
\* kill.c:28-37: the companion tool creates /data/shadowmount.kill and
\* writes "DIE" into it.
RunKillTool ==
    /\ ~killFile
    /\ killFile' = TRUE
    /\ ev' = Ev("killtool", NoProc, NoPath)
    /\ UNCHANGED <<fsVars, rootOk, titleVars, dataVars, procVars, gateIn, gateOut,
                   watch, fails, deferred, sweptGone, recreated, tries, rival, envSteps>>

\* The scan roots and candidate directories as one daemon finds them, with
\* every kind of manifest; only a directory with a title id is ever settled,
\* and nothing changes afterwards.
InitScan ==
    /\ exists \in [Paths -> BOOLEAN]
    /\ manifest \in [Paths -> Manifests]
    /\ settled \in [Paths -> BOOLEAN]
    /\ rootOk \in [Roots -> BOOLEAN]
    /\ \A p \in Paths : ~exists[p] => (manifest[p] = "missing" /\ ~settled[p])
    /\ \A p \in Paths : settled[p] => manifest[p] \in {"valid", "valid_alt"}
    /\ mnt = [t \in Titles |-> NoPath]
    /\ appdir = [t \in Titles |-> FALSE]
    /\ assets = [t \in Titles |-> "none"]
    /\ lnk = [t \in Titles |-> NoPath]
    /\ lockFile = NoProc
    /\ logFile = NoProc
    /\ stopFile = FALSE
    /\ killFile = FALSE
    /\ pc = [d \in Procs |-> "off"]
    /\ phase = [d \in Procs |-> "startup"]
    /\ idx = [d \in Procs |-> 1]
    /\ cache = [d \in Procs |-> EmptyCache]
    /\ hasLock = [d \in Procs |-> FALSE]
    /\ ev = NoEv
    /\ watch = 1
    /\ fails = 0
    /\ deferred = FALSE
    /\ sweptGone = FALSE
    /\ recreated = FALSE
    /\ tries = 0
    /\ rival = [d \in Procs |-> NoProc]
    /\ envSteps = 0
    /\ gateIn = NoGateIn
    /\ gateOut = NoGate

NextScan == RunKillTool \/ DaemonNext(1)

SpecScan == InitScan /\ [][NextScan]_vars

FairScan == SpecScan /\ WF_vars(DaemonNext(1))

\* --------------------------------------------- the stability gate alone
\* One call of wait_for_stability_fast on any directory state.
InitGate ==
    /\ InitDaemon
    /\ gateIn \in [dir : BOOLEAN, age : 0..MaxAge, sys : BOOLEAN, sysAge : 0..MaxAge]

CallGate ==
    /\ ~gateOut.called
    /\ LET r == FastGate(gateIn.dir, gateIn.age, gateIn.sys, gateIn.sysAge)
       IN  gateOut' = [called |-> TRUE, stable |-> r.stable, slept |-> r.slept]
    /\ UNCHANGED <<fsVars, rootOk, titleVars, dataVars, killFile, procVars,
                   histVars, tries, gateIn>>

NextGate == CallGate

SpecGate == InitGate /\ [][NextGate]_vars

\* ================================================================ claims
\* The step of process d that handles the directory entry p of a scan.
EntryStep(d, p) ==
    /\ pc[d] = "scan"
    /\ idx[d] = p
    /\ exists[p]
    /\ pc'[d] # "scan" \/ idx'[d] # p

\* The title the last step was about.
EvTitle == TitleOf(ev.path)

\* ---------------------------------------------------------------- C1
\* C1: a title is never attempted automatically past MAX_RETRIES: the
\* number of consecutive failed installs of a candidate directory (counted
\* since it appeared on disk) never exceeds MAX_RETRIES.
C1_NoRetryPastMax == fails <= MAX_RETRIES

\* ---------------------------------------------------------------- C2
\* C2: after a failed install with fewer than MAX_RETRIES failures the
\* candidate is attempted again in a later poll cycle (its failure count
\* then changes) unless its path disappears or the daemon is stopped.
C2_RetriedLater ==
    \A n \in 1..(MAX_RETRIES - 1) :
        (fails = n) ~> (fails # n \/ ~exists[watch] \/ pc[1] = "exit0")

\* ---------------------------------------------------------------- C3
\* C3: a candidate the gate reported unstable, once it has become stable
\* and while its path persists, is checked again by a later cycle, which
\* then calls mount_and_install on it.
C3_RecheckedLater ==
    (deferred /\ settled[watch]) ~> (~deferred \/ pc[1] = "exit0")

\* ---------------------------------------------------------------- C4
\* C4: while a title is installed and mounted, no step of a daemon calls
\* the stability gate or mount_and_install on a path of that title, and
\* every step of a daemon leaves the title's mount point, installation
\* directory and link marker as they were.
C4_PerfectUntouched ==
    [][\A t \in Titles :
         (/\ ev'.proc # NoProc
          /\ IsInstalled(t)
          /\ IsDataMounted(t))
         => (/\ (ev'.path # NoPath /\ TitleOf(ev'.path) = t)
                   => (~ev'.inst /\ ev'.gate = "none")
             /\ mnt'[t] = mnt[t]
             /\ appdir'[t] = appdir[t]
             /\ assets'[t] = assets[t]
             /\ lnk'[t] = lnk[t])]_vars

\* A new candidate was skipped because its title is installed and mounted.
C4_Witness == ev.op = "perfect" /\ ev.recorded

\* ---------------------------------------------------------------- C5
\* C5: when mount_and_install fails at the mount or at the asset copy, no
\* mount is left at the mount point, no partially populated installation
\* directory exists, and a copy failure is returned as a failure.
C5_FailureLeavesNothing ==
    (ev.inst /\ (~ev.mountOk \/ ev.copy = "failed"))
    => (/\ mnt[EvTitle] = NoPath
        /\ assets[EvTitle] # "partial"
        /\ ~ev.ret)

\* ---------------------------------------------------------------- C6
\* C6: when registration returns a status other than success or "already
\* registered", the mount is undone and the link marker and the
\* installation directory this attempt wrote are removed.
C6_RegistrationRollback ==
    (ev.inst /\ ev.mountOk /\ ev.res \notin {REG_OK, REG_ALREADY})
    => (/\ mnt[EvTitle] = NoPath
        /\ lnk[EvTitle] = NoPath
        /\ (~ev.remount => ~appdir[EvTitle]))

\* ---------------------------------------------------------------- C7
\* C7: a process started while another one holds the lock leaves that
\* lock file and log alone and never reaches a scan or the poll loop.
C7_SecondInstanceInert ==
    \A d \in Procs :
        (rival[d] # NoProc /\ hasLock[rival[d]])
        => (/\ lockFile = rival[d]
            /\ logFile # d
            /\ pc[d] \notin {"sweep", "scan", "loop"})

\* ---------------------------------------------------------------- C8
\* C8: at most one process at a time is inside scan_all_paths, and a
\* process inside it holds the lock.
C8_OneScannerAtATime ==
    /\ Cardinality({d \in Procs : pc[d] \in {"sweep", "scan"}}) <= 1
    /\ \A d \in Procs : pc[d] \in {"sweep", "scan"} => (hasLock[d] /\ lockFile = d)

\* ---------------------------------------------------------------- C9
\* C9 as claimed: after the sweep every valid entry's path exists, the
\* startup count runs on a cache with no stale entry, and a path that was
\* removed and re-created is never skipped as already seen.
C9_RecreatedIsNew ==
    /\ ev.op = "sweep" =>
         \A k \in Slots : Valid(cache[ev.proc], k) => exists[cache[ev.proc][k]]
    /\ \A d \in Procs : pc[d] = "count" => cache[d] = EmptyCache
    /\ (ev.op = "seen" /\ ev.path = watch) => ~recreated

\* C9 amended: the same, for a path that a sweep found missing: once a
\* sweep has invalidated its entry the path is not skipped as already seen
\* until it has been treated as a new candidate.
C9_SweptIsNew ==
    /\ ev.op = "sweep" =>
         \A k \in Slots : Valid(cache[ev.proc], k) => exists[cache[ev.proc][k]]
    /\ \A d \in Procs : pc[d] = "count" => cache[d] = EmptyCache
    /\ (ev.op = "seen" /\ ev.path = watch) => ~sweptGone

\* A path whose entry a sweep invalidated came back and passed the dedup
\* filter as a new candidate.
C9_Witness == ev.swept /\ ev.recorded

\* ---------------------------------------------------------------- C10
\* C10: a new candidate found while every slot is valid is dropped for the
\* cycle: no stability check, no mount_and_install, and the cache is left
\* as it was.
C10_FullCacheDrops ==
    [][\A d \in Procs :
         (NewCandidate(d) /\ FreeSlots(cache[d]) = {} /\ EntryStep(d, idx[d]))
         => (/\ ev'.gate = "none"
             /\ ~ev'.inst
             /\ cache'[d] = cache[d])]_vars

\* ---------------------------------------------------------------- C11
\* C11: within one poll cycle nothing stops the scan.  Every step of a
\* scan handles the entry the scan is at and moves to the next one in
\* discovery order, whatever the outcome (root unreadable, entry missing,
\* manifest invalid, gate unstable, mount, copy or registration failed);
\* the scan returns only after the last entry of the last root; and an
\* entry that is listed, not yet seen, has a title id and is not already
\* installed and mounted has the gate or mount_and_install called on it.
C11_ScanContinues ==
    [][\A d \in Procs :
         (pc[d] = "scan" /\ ev'.proc = d) =>
            /\ ev'.path = idx[d]
            /\ IF idx[d] < NumPaths
               THEN pc'[d] = "scan" /\ idx'[d] = idx[d] + 1
               ELSE pc'[d] \in {"lock", "loop"}
            /\ ( /\ Listed(idx[d])
                 /\ ~AlreadySeen(cache[d], idx[d])
                 /\ GetGameInfo(idx[d])
                 /\ ~SkipPerfect(TitleOf(idx[d])) )
               => (ev'.gate # "none" \/ ev'.inst)]_vars

\* A mount_and_install that failed on an entry before the last one, the
\* scan now at the next entry, whose root does not open.
C11_Witness ==
    /\ ev.inst /\ ~ev.ret
    /\ pc[ev.proc] = "scan"
    /\ idx[ev.proc] = ev.path + 1
    /\ ~rootOk[RootOf(idx[ev.proc])]

\* ---------------------------------------------------------------- C12
\* C12: whenever the kill sentinel is present when the loop polls it, the
\* daemon takes the shutdown path: it writes the state of the titles to
\* storage, removes the sentinel, removes the lock file and exits with
\* code 0.
C12_StopShutsDown ==
    [][\A d \in Procs :
         (pc[d] = "loop" /\ stopFile /\ ev'.proc = d) =>
            /\ ev'.saved
            /\ ~stopFile'
            /\ lockFile' = NoProc
            /\ pc'[d] = "exit0"]_vars

\* ---------------------------------------------------------------- C13
\* C13: after the kill tool has run successfully, a running daemon
\* eventually observes the file the tool created and terminates.
C13_KillToolStops == (killFile /\ Running(1)) ~> (pc[1] = "exit0")

\* ---------------------------------------------------------------- C14
\* C14: no daemon runs the poll loop without holding the lock: a process
\* whose attempt to take the lock failed, for whatever reason, has exited
\* and is never in the loop or in one of its scans.
C14_LoopHoldsLock ==
    \A d \in Procs :
        (phase[d] = "loop" /\ pc[d] \in {"loop", "sweep", "scan"}) => hasLock[d]

\* ---------------------------------------------------------------- C15
\* C15: a directory whose manifest is missing, empty or has neither id key
\* is excluded from the startup count and from processing: the count is at
\* most the number of directories with a title id, no cache slot holds
\* such a directory, and neither the gate nor mount_and_install is called
\* on it.  (The directories do not change once the daemon has started.)
C15_NoIdExcluded ==
    LET WithId == {p \in Paths : exists[p] /\ manifest[p] \in {"valid", "valid_alt"}}
    IN  /\ \A d \in Procs :
             /\ pc[d] = "count" => CountNewCandidates(d) <= Cardinality(WithId)
             /\ \A k \in Slots : Valid(cache[d], k) => cache[d][k] \in WithId
        /\ (ev.gate # "none" \/ ev.inst \/ ev.recorded \/ ev.notify)
               => ev.path \in WithId

\* The scan has just passed over a directory whose manifest has neither id
\* key, with an empty manifest elsewhere, and recorded neither.
C15_Witness ==
    /\ ev.op = "nometa"
    /\ manifest[ev.path] = "nokey"
    /\ \E p \in Paths : exists[p] /\ manifest[p] = "empty" /\ p < ev.path
    /\ cache[ev.proc] = EmptyCache

\* ---------------------------------------------------------------- C16
\* C16: the fast gate returns stable exactly when the directory exists,
\* was modified more than STABLE_SECS seconds ago, and its sce_sys is
\* absent or was also modified more than STABLE_SECS seconds ago; and
\* whenever the directory exists but is not stable, the call sleeps
\* before it returns.
C16_GateStableExactly ==
    gateOut.called =>
        /\ gateOut.stable <=>
              ( /\ gateIn.dir
                /\ gateIn.age > STABLE_SECS
                /\ (~gateIn.sys \/ gateIn.sysAge > STABLE_SECS) )
        /\ (gateIn.dir /\ ~gateOut.stable) => gateOut.slept

\* The directory is older than the threshold and its sce_sys exactly at
\* it: the call slept and reported unstable.
C16_Witness ==
    /\ gateOut.called
    /\ gateIn.dir /\ gateIn.age = STABLE_SECS + 1
    /\ gateIn.sys /\ gateIn.sysAge = STABLE_SECS
    /\ ~gateOut.stable /\ gateOut.slept

\* ---------------------------------------------------------------- C17
\* s holds the step x; s holds x at an earlier place than y.
Has(s, x) == \E i \in DOMAIN s : s[i] = x
Before(s, x, y) == \E i, j \in DOMAIN s : i < j /\ s[i] = x /\ s[j] = y

\* C17: the asset copy runs only for a fresh install.  A new candidate
\* whose title is registered but not mounted is processed without the gate
\* and without the install notification; no directory is made and nothing
\* copied, so the assets copied before stay as they are; and when the mount
\* succeeds the source is mounted, the link marker holds the source path
\* and registration is called.  For a title not registered before, once
\* the mount succeeded the installation directory is made and the assets
\* are copied, after the mount and before registration.
C17_CopyOnlyFresh ==
    [][\A d \in Procs :
         (NewCandidate(d) /\ ~SkipPerfect(TitleOf(idx[d])) /\ ev'.proc = d) =>
            LET p == idx[d]
                t == TitleOf(p)
                s == ev'.steps
            IN  IF IsInstalled(t)
                THEN /\ ev'.inst /\ ev'.remount
                     /\ ev'.gate = "none" /\ ~ev'.notify
                     /\ ~Has(s, "mkdir") /\ ~Has(s, "copy") /\ ev'.copy = "none"
                     /\ assets'[t] = assets[t] /\ appdir'[t] = appdir[t]
                     /\ ev'.mountOk =>
                           /\ mnt'[t] = p /\ lnk'[t] = p
                           /\ Before(s, "mount", "lnk")
                           /\ Before(s, "lnk", "register")
                ELSE (ev'.inst /\ ev'.mountOk) =>
                           /\ ev'.notify /\ ev'.gate = "stable"
                           /\ appdir'[t] /\ assets'[t] \in {"full", "partial"}
                           /\ ev'.copy # "none"
                           /\ Before(s, "mount", "mkdir")
                           /\ Before(s, "mkdir", "copy")
                           /\ Before(s, "copy", "register")]_vars

\* A remount that succeeded on a title whose assets were copied in full by
\* an earlier install from another directory.
C17_Witness ==
    /\ ev.inst /\ ev.remount /\ ev.mountOk
    /\ assets[EvTitle] = "full"
    /\ lnk[EvTitle] = ev.path
    /\ ev.steps = <<"unmount", "mount", "lnk", "register">>

\* ---------------------------------------------------------------- C18
\* C18: mount_and_install returns true exactly when the mount succeeded
\* and registration returned REG_OK or REG_ALREADY; a failed mount and
\* every other status return false; and the rich toast is written only
\* when the mount succeeded and registration returned REG_OK.
C18_SuccessExactly ==
    ev.inst =>
        /\ ev.ret <=> (ev.mountOk /\ ev.res \in {REG_OK, REG_ALREADY})
        /\ ev.toast => (ev.mountOk /\ ev.res = REG_OK)
        /\ ev.toast <=> Has(ev.steps, "toast")

\* Registration answered "already registered": success without a toast.
C18_Witness ==
    /\ ev.inst /\ ev.mountOk
    /\ ev.res = REG_ALREADY
    /\ ev.ret /\ ~ev.toast

C20_MountFirst ==
    [][\A d \in Procs :
         (pc[d] = "scan" /\ ev'.proc = d /\ ev'.inst) =>
            LET t == TitleOf(idx[d])
                s == ev'.steps
            IN  /\ Has(s, "lnk") => (ev'.mountOk /\ Before(s, "mount", "lnk"))
                /\ Has(s, "register") =>
                      (ev'.mountOk /\ Before(s, "mount", "register"))
                /\ ~ev'.mountOk =>
                      /\ ~Has(s, "mkdir") /\ ~Has(s, "copy")
                      /\ ~Has(s, "lnk") /\ ~Has(s, "register")
                      /\ appdir'[t] = appdir[t]
                      /\ assets'[t] = assets[t]
                      /\ lnk'[t] = lnk[t]
                      /\ ~ev'.ret]_vars

\* A fresh install whose mount failed: the call ended after the mount
\* attempt, with no installation directory and no link marker.
C20_Witness ==
    /\ ev.inst /\ ~ev.remount /\ ~ev.mountOk
    /\ ev.steps = <<"unmount", "mount">>
    /\ ~appdir[EvTitle]
    /\ lnk[EvTitle] = NoPath
====
